---- MODULE Spec2Model ----
(***************************************************************************)
(* BladeMedia Organizer (src/blademedia_organizer.py): the filename        *)
(* parsers, the subtitle matcher and the organize loop over a file tree.   *)
(*                                                                         *)
(* A string is a sequence of one-character strings; a path is a sequence   *)
(* of components (pathlib's parts), each component a string.  The file     *)
(* tree is a function from the paths of the existing files to the identity *)
(* of their content, plus the set of existing directories.                 *)
(***************************************************************************)
EXTENDS Integers, Sequences, FiniteSets, TLC

\* ------------------------------------------------------------------ text

\* The printable ASCII characters in code-point order, from 32 to 126 (the
\* backquote, code 96, is spelled out: no file name of the model holds it).
Ascii ==
  << " ", "!", "\"", "#", "$", "%", "&", "'", "(", ")", "*", "+", ",", "-", ".", "/",
     "0", "1", "2", "3", "4", "5", "6", "7", "8", "9", ":", ";", "<", "=", ">", "?",
     "@", "A", "B", "C", "D", "E", "F", "G", "H", "I", "J", "K", "L", "M", "N", "O",
     "P", "Q", "R", "S", "T", "U", "V", "W", "X", "Y", "Z", "[", "\\", "]", "^", "_",
     "backquote", "a", "b", "c", "d", "e", "f", "g", "h", "i", "j", "k", "l", "m", "n", "o",
     "p", "q", "r", "s", "t", "u", "v", "w", "x", "y", "z", "{", "|", "}", "~" >>

\* ord(c)
Ord(c) == 31 + (CHOOSE i \in 1..Len(Ascii) : Ascii[i] = c)

Digits == {"0", "1", "2", "3", "4", "5", "6", "7", "8", "9"}

Max(S) == CHOOSE x \in S : \A y \in S : y <= x
Min(S) == CHOOSE x \in S : \A y \in S : x <= y

\* s[a:b] of Python with 1-based inclusive bounds; empty when b < a.
Slice(s, a, b) == IF b < a THEN << >> ELSE SubSeq(s, a, b)

\* Whether every character of s[a..b] is in class C.
AllIn(s, a, b, C) == \A r \in a..b : s[r] \in C

\* str.strip(chars): drop the characters of C from both ends.
Strip(s, C) ==
  LET keep == {i \in 1..Len(s) : s[i] \notin C}
  IN  IF keep = {} THEN << >> ELSE SubSeq(s, Min(keep), Max(keep))

\* str.replace(old, new) for single characters.
Replace(s, old, new) == [i \in 1..Len(s) |-> IF s[i] = old THEN new ELSE s[i]]

\* re.sub of the bracket class by '': the filename without bracket characters.
RECURSIVE StripBrackets(_)
StripBrackets(s) ==
  IF s = << >> THEN << >>
  ELSE IF Head(s) \in {"[", "]"} THEN StripBrackets(Tail(s))
       ELSE <<Head(s)>> \o StripBrackets(Tail(s))

\* int(digits): the decimal value of a string of digits (leading zeros dropped).
RECURSIVE IntOf(_)
IntOf(s) ==
  IF s = << >> THEN 0
  ELSE 10 * IntOf(SubSeq(s, 1, Len(s) - 1)) + (Ord(s[Len(s)]) - Ord("0"))

\* str(n) for n >= 0: the decimal digits of n, no leading zeros.
RECURSIVE StrOf(_)
StrOf(n) ==
  IF n < 10 THEN <<Ascii[n + 17]>>
  ELSE StrOf(n \div 10) \o <<Ascii[(n % 10) + 17]>>

\* The title and show normalisation of both parsers:
\* .strip('.- ').replace('.', ' ').replace('_', ' ').strip()
Normalize(s) ==
  Strip(Replace(Replace(Strip(s, {".", "-", " "}), ".", " "), "_", " "), {" "})

NoMatch == [ok |-> FALSE]

\* ------------------------------------------------------- filename parser

\* Program constants: the accepted movie years and the TV placeholder year.
MinYear == 1900
MaxYear == 2026
show_year == 2025

\* The regex classes [. _] and [. _-], and the group opener [._-].
Sep == {".", " ", "_"}
SepDash == {".", " ", "_", "-"}
TailOpen == {".", "_", "-"}

\* A regex match is found by backtracking: a lazy quantifier takes the
\* shortest repetition whose continuation matches, a greedy one the longest.
\* Positions are 1-based ends of what a quantifier took; 0 stands for no match.
Shortest(S) == IF S = {} THEN 0 ELSE Min(S)
Longest(S) == IF S = {} THEN 0 ELSE Max(S)

\* Movie pattern 1, ^(.+?)[. _-]+(?P<year>\d{4})[. _] : title s[1..i], the
\* separators s[i+1..j], the year s[j+1..j+4], one separator after it.
Movie1Js(s, i) ==
  {j \in (i + 1)..Len(s) :
      /\ AllIn(s, i + 1, j, SepDash)
      /\ j + 5 <= Len(s)
      /\ AllIn(s, j + 1, j + 4, Digits)
      /\ s[j + 5] \in Sep}

\* The groups of a movie match: the title s[1..i] and the year s[y..y+3].
MovieGroups(s, i, y) ==
  IF i = 0 THEN NoMatch
  ELSE [ok |-> TRUE, title |-> SubSeq(s, 1, i), year |-> SubSeq(s, y, y + 3)]

Movie1From(s, i) == MovieGroups(s, i, Longest(Movie1Js(s, i)) + 1)

MovieMatch1(s) ==
  Movie1From(s, Shortest({i \in 1..Len(s) : Movie1Js(s, i) # {}}))

\* \d{4}\)?[. _] at position y: four digits, an optional ')' and a separator.
YearAt(s, y) ==
  /\ y + 3 <= Len(s)
  /\ AllIn(s, y, y + 3, Digits)
  /\ \/ y + 5 <= Len(s) /\ s[y + 4] = ")" /\ s[y + 5] \in Sep
     \/ y + 4 <= Len(s) /\ s[y + 4] \in Sep

\* \(?(?P<year>\d{4})\)?[. _] after position j: where the year starts (the '('
\* is taken first when present), 0 when there is no match.
Movie2Year(s, j) ==
  IF j + 1 <= Len(s) /\ s[j + 1] = "(" /\ YearAt(s, j + 2) THEN j + 2
  ELSE IF YearAt(s, j + 1) THEN j + 1
  ELSE 0

\* Movie pattern 2, ^(.+?)[. _]*\(?(?P<year>\d{4})\)?[. _]
Movie2Js(s, i) ==
  {j \in i..Len(s) : AllIn(s, i + 1, j, Sep) /\ Movie2Year(s, j) # 0}

Movie2From(s, i) ==
  IF i = 0 THEN NoMatch
  ELSE MovieGroups(s, i, Movie2Year(s, Longest(Movie2Js(s, i))))

MovieMatch2(s) ==
  Movie2From(s, Shortest({i \in 1..Len(s) : Movie2Js(s, i) # {}}))

\* A variant of MovieYearInRange: a year outside the range clamped into it.
MovieYearClamped(m, year) ==
  [ok |-> TRUE, title |-> Normalize(m.title),
   year |-> IF year < MinYear THEN MinYear
            ELSE IF year > MaxYear THEN MaxYear ELSE year]

\* The body of the pattern loop for one match: the title normalised and the
\* year converted, returned only when the year is in the accepted range.
MovieYearInRange(m, year) ==
  IF MinYear <= year /\ year <= MaxYear
  THEN [ok |-> TRUE, title |-> Normalize(m.title), year |-> year]
  ELSE NoMatch

MovieResult(m) == IF ~m.ok THEN NoMatch ELSE MovieYearInRange(m, IntOf(m.year))

\* The pattern loop: the first pattern that yields a result.
FirstResult(r1, r2) == IF r1.ok THEN r1 ELSE r2

\* parse_movie_filename: the first pattern whose match has a year in range.
parse_movie_filename(filename) ==
  FirstResult(MovieResult(MovieMatch1(StripBrackets(filename))),
              MovieResult(MovieMatch2(StripBrackets(filename))))

\* The tail (?:[._-].*)?(?P<title>.*)?[. _] of both TV patterns after position
\* m: the optional group is tried first and as long as possible (to n), the
\* title then takes s[n+1..t] as long as possible, and s[t+1] is a separator.
TitleEnds(s, n) == {t \in n..(Len(s) - 1) : s[t + 1] \in Sep}

\* Where the optional group ends: m when it takes nothing.
TailGroupEnd(s, m) ==
  IF m + 1 <= Len(s) /\ s[m + 1] \in TailOpen
  THEN Max({m} \cup {n \in (m + 1)..Len(s) : TitleEnds(s, n) # {}})
  ELSE m

TitleFrom(s, n) ==
  IF TitleEnds(s, n) = {} THEN NoMatch
  ELSE [ok |-> TRUE, title |-> Slice(s, n + 1, Max(TitleEnds(s, n)))]

TVTail(s, m) == TitleFrom(s, TailGroupEnd(s, m))

\* (?P<episode>\d+) from position p, then the tail: the end of the digits.
EpisodeEnds(s, p) ==
  {m \in p..Len(s) : AllIn(s, p, m, Digits) /\ TVTail(s, m).ok}

\* The groups of a TV match: the show s[1..i], the season s[a..k], the
\* episode s[b..m] and the title the tail captured.
TVGroups(s, i, a, k, b, m) ==
  [ok |-> TRUE, show |-> SubSeq(s, 1, i), season |-> SubSeq(s, a, k),
   episode |-> SubSeq(s, b, m), title |-> TVTail(s, m).title]

\* TV pattern 1 after the show s[1..i]:
\* [. _]+S(?P<season>\d+)[. _]*E(?P<episode>\d+), case-insensitive.
\* j ends the separators, k the season, l the second separators.
TV1Ls(s, k) ==
  {l \in k..Len(s) :
      /\ AllIn(s, k + 1, l, Sep)
      /\ l + 1 <= Len(s) /\ s[l + 1] \in {"E", "e"}
      /\ EpisodeEnds(s, l + 2) # {}}

TV1Ks(s, j) ==
  {k \in (j + 2)..Len(s) : AllIn(s, j + 2, k, Digits) /\ TV1Ls(s, k) # {}}

TV1Js(s, i) ==
  {j \in (i + 1)..Len(s) :
      /\ AllIn(s, i + 1, j, Sep)
      /\ j + 1 <= Len(s) /\ s[j + 1] \in {"S", "s"}
      /\ TV1Ks(s, j) # {}}

TV1FromE(s, i, j, k, l) ==
  TVGroups(s, i, j + 2, k, l + 2, Longest(EpisodeEnds(s, l + 2)))

TV1FromSeason(s, i, j, k) == TV1FromE(s, i, j, k, Longest(TV1Ls(s, k)))

TV1FromS(s, i, j) == TV1FromSeason(s, i, j, Longest(TV1Ks(s, j)))

TV1From(s, i) ==
  IF i = 0 THEN NoMatch ELSE TV1FromS(s, i, Longest(TV1Js(s, i)))

TVMatch1(s) == TV1From(s, Shortest({i \in 1..Len(s) : TV1Js(s, i) # {}}))

\* TV pattern 2 after the show s[1..i]:
\* [. _]+(?P<season>\d+)x(?P<episode>\d+), case-insensitive.
TV2Ks(s, j) ==
  {k \in (j + 1)..Len(s) :
      /\ AllIn(s, j + 1, k, Digits)
      /\ k + 1 <= Len(s) /\ s[k + 1] \in {"x", "X"}
      /\ EpisodeEnds(s, k + 2) # {}}

TV2Js(s, i) ==
  {j \in (i + 1)..Len(s) : AllIn(s, i + 1, j, Sep) /\ TV2Ks(s, j) # {}}

TV2FromX(s, i, j, k) ==
  TVGroups(s, i, j + 1, k, k + 2, Longest(EpisodeEnds(s, k + 2)))

TV2FromSeps(s, i, j) == TV2FromX(s, i, j, Longest(TV2Ks(s, j)))

TV2From(s, i) ==
  IF i = 0 THEN NoMatch ELSE TV2FromSeps(s, i, Longest(TV2Js(s, i)))

TVMatch2(s) == TV2From(s, Shortest({i \in 1..Len(s) : TV2Js(s, i) # {}}))

\* f"Episode {episode}"
EpisodeWord == <<"E", "p", "i", "s", "o", "d", "e", " ">>

\* The episode title of a match: the captured group stripped of '.- ' when it
\* is not empty, "Episode {episode}" otherwise.
EpisodeTitle(captured, episode) ==
  IF captured # << >> THEN Strip(captured, {".", "-", " "})
  ELSE EpisodeWord \o StrOf(episode)

\* A variant of TVFields: the synthesized title built from the episode's digits
\* as captured, leading zeros kept.
TVFieldsDigitsKept(m, episode) ==
  [ok |-> TRUE, show |-> Normalize(m.show), season |-> IntOf(m.season),
   episode |-> episode,
   title |-> IF m.title # << >> THEN Strip(m.title, {".", "-", " "})
             ELSE EpisodeWord \o m.episode]

\* The body of the pattern loop for one match.
TVFields(m, episode) ==
  [ok |-> TRUE, show |-> Normalize(m.show), season |-> IntOf(m.season),
   episode |-> episode, title |-> EpisodeTitle(m.title, episode)]

TVResult(m) == IF ~m.ok THEN NoMatch ELSE TVFields(m, IntOf(m.episode))

\* parse_tv_filename: the first pattern that matches.
parse_tv_filename(filename) ==
  FirstResult(TVResult(TVMatch1(StripBrackets(filename))),
              TVResult(TVMatch2(StripBrackets(filename))))

\* ----------------------------------------------------------------- paths

\* Path.name and Path.parent
Name(p) == p[Len(p)]
Parent(p) == SubSeq(p, 1, Len(p) - 1)

\* Whether directory d is p's parent or an ancestor of it.
IsUnder(d, p) == Len(p) > Len(d) /\ SubSeq(p, 1, Len(d)) = d

\* Every directory mkdir(parents=True) makes sure exists: d and its ancestors.
Ancestors(d) == {SubSeq(d, 1, n) : n \in 1..Len(d)}

\* The position of the last '.' of a name, 0 when it has none.
LastDot(name) ==
  LET ds == {i \in 1..Len(name) : name[i] = "."}
  IN  IF ds = {} THEN 0 ELSE Max(ds)

\* Path.suffix and Path.stem: a leading or a trailing dot starts no suffix.
Suffix(name) ==
  LET d == LastDot(name)
  IN  IF 1 < d /\ d < Len(name) THEN SubSeq(name, d, Len(name)) ELSE << >>

Stem(name) ==
  LET d == LastDot(name)
  IN  IF 1 < d /\ d < Len(name) THEN SubSeq(name, 1, d - 1) ELSE name

\* name.rsplit('.', 1)[0]
RSplitBase(name) ==
  LET d == LastDot(name)
  IN  IF d = 0 THEN name ELSE SubSeq(name, 1, d - 1)

\* String order by code points, as Python compares str.
RECURSIVE StrLess(_, _)
StrLess(a, b) ==
  IF b = << >> THEN FALSE
  ELSE IF a = << >> THEN TRUE
  ELSE IF Head(a) = Head(b) THEN StrLess(Tail(a), Tail(b))
  ELSE Ord(Head(a)) < Ord(Head(b))

\* Path order: pathlib compares the lists of parts.
RECURSIVE PathLess(_, _)
PathLess(p, q) ==
  IF q = << >> THEN FALSE
  ELSE IF p = << >> THEN TRUE
  ELSE IF Head(p) = Head(q) THEN PathLess(Tail(p), Tail(q))
  ELSE StrLess(Head(p), Head(q))

\* sorted(paths)
RECURSIVE SortPaths(_)
SortPaths(S) ==
  IF S = {} THEN << >>
  ELSE LET first == CHOOSE p \in S : \A q \in S \ {p} : PathLess(p, q)
       IN  <<first>> \o SortPaths(S \ {first})

\* fnmatch: the position of the ']' that closes the class opened at pat[i]
\* (a '!' and then a ']' right after the '[' do not close it), 0 when the
\* class is not closed and the '[' stands for itself.
ClassEnd(pat, i) ==
  LET a  == IF i + 1 <= Len(pat) /\ pat[i + 1] = "!" THEN i + 2 ELSE i + 1
      b  == IF a <= Len(pat) /\ pat[a] = "]" THEN a + 1 ELSE a
      js == {j \in b..Len(pat) : pat[j] = "]"}
  IN  IF js = {} THEN 0 ELSE Min(js)

\* Whether character c is in the class whose text (between the brackets) is
\* stuff.  Classes holding a '-' (ranges) are not modelled: no name of the
\* model has one.
InClass(c, stuff) ==
  IF stuff = <<"!">> THEN TRUE
  ELSE IF stuff[1] = "!" THEN \A r \in 2..Len(stuff) : stuff[r] # c
  ELSE \E r \in 1..Len(stuff) : stuff[r] = c

\* fnmatch.translate(pat) as a full match of name[k..] by pat[i..]: '*' is
\* any run of characters, '?' any one, '[...]' a class, the rest literal.
RECURSIVE FnMatchFrom(_, _, _, _)
FnMatchFrom(pat, i, name, k) ==
  IF i > Len(pat) THEN k > Len(name)
  ELSE IF pat[i] = "*"
       THEN \E k2 \in k..(Len(name) + 1) : FnMatchFrom(pat, i + 1, name, k2)
  ELSE IF k > Len(name) THEN FALSE
  ELSE IF pat[i] = "?" THEN FnMatchFrom(pat, i + 1, name, k + 1)
  ELSE IF pat[i] = "[" /\ ClassEnd(pat, i) # 0
       THEN LET j == ClassEnd(pat, i)
            IN  /\ InClass(name[k], SubSeq(pat, i + 1, j - 1))
                /\ FnMatchFrom(pat, j + 1, name, k + 1)
  ELSE pat[i] = name[k] /\ FnMatchFrom(pat, i + 1, name, k + 1)

FnMatch(pat, name) == FnMatchFrom(pat, 1, name, 1)

\* self.video_exts and self.subtitle_exts
video_exts ==
  { <<".", "m", "k", "v">>, <<".", "m", "p", "4">>, <<".", "a", "v", "i">>,
    <<".", "m", "4", "v">>, <<".", "m", "o", "v">>, <<".", "w", "m", "v">>,
    <<".", "f", "l", "v">> }

subtitle_exts ==
  { <<".", "s", "r", "t">>, <<".", "a", "s", "s">>, <<".", "s", "s", "a">>,
    <<".", "s", "u", "b">>, <<".", "i", "d", "x">> }

\* A list back to front.
Reversed(seq) == [i \in 1..Len(seq) |-> seq[Len(seq) + 1 - i]]

\* A variant of get_video_files: the list not in ascending order (here the
\* sorted one back to front).
get_video_files_unsorted(files, path) ==
  Reversed(SortPaths({p \in files :
                        /\ IsUnder(path, p)
                        /\ Suffix(Name(p)) \in video_exts}))

\* get_video_files: the files under path, at any depth, whose name matches
\* *<ext> for a video extension, sorted.  (rglob would list directories of
\* such a name too: the model has none.)
get_video_files(files, path) ==
  SortPaths({p \in files :
               /\ IsUnder(path, p)
               /\ \E ext \in video_exts : FnMatch(<<"*">> \o ext, Name(p))})

\* find_associated_subs: the files of the video's own directory whose name
\* matches <video stem>*<ext> as a glob pattern, sorted.
find_associated_subs(files, video_path) ==
  LET video_name == Stem(Name(video_path))
  IN  SortPaths({p \in files :
                   /\ Parent(p) = Parent(video_path)
                   /\ \E ext \in subtitle_exts :
                        FnMatch(video_name \o <<"*">> \o ext, Name(p))})

\* ---------------------------------------------------------- path planner

\* self.movies_root and self.tv_root, relative to the library root.
Media == <<"m", "e", "d", "i", "a">>
movies_root == <<Media, <<"m", "o", "v", "i", "e", "s">> >>
tv_root == <<Media, <<"t", "v">> >>

\* f"[{a}] [{n}]"
Bracketed(a, n) == <<"[">> \o a \o <<"]", " ", "[">> \o StrOf(n) \o <<"]">>

\* organize_movie's plan: the folder [title] [year] under the movies root,
\* the video and each subtitle under their own names.
MovieFolder(parsed) == Append(movies_root, Bracketed(parsed.title, parsed.year))

MovieVideoDest(parsed, video_path) ==
  Append(MovieFolder(parsed), Name(video_path))

MovieSubDest(parsed, video_path, sub) == Append(MovieFolder(parsed), Name(sub))

\* The movie skip test: the planned folder is the video's own.
MovieInPlace(parsed, video_path) == MovieFolder(parsed) = Parent(video_path)

\* organize_tv's plan.
SeasonFolder(parsed) ==
  tv_root \o
  << Bracketed(parsed.show, show_year),
     <<"S", "e", "a", "s", "o", "n", " ">> \o StrOf(parsed.season)
       \o <<" ", "[">> \o StrOf(show_year) \o <<"]">> >>

TVFilename(parsed, video_path) ==
  <<"E", "P">> \o StrOf(parsed.episode) \o <<" ", "-", " ">> \o parsed.title
    \o <<" ", "[">> \o StrOf(show_year) \o <<"]">> \o Suffix(Name(video_path))

TVVideoDest(parsed, video_path) ==
  Append(SeasonFolder(parsed), TVFilename(parsed, video_path))

TVSubDest(parsed, video_path, sub) ==
  Append(SeasonFolder(parsed),
         RSplitBase(TVFilename(parsed, video_path)) \o Suffix(Name(sub)))

\* The TV skip test: the planned folder and file name are the video's own.
TVInPlace(parsed, video_path) ==
  /\ SeasonFolder(parsed) = Parent(video_path)
  /\ Name(video_path) = TVFilename(parsed, video_path)

\* ------------------------------------------------------------ file trees

\* The files an initial library is drawn from: movies at the movies root
\* with subtitles (plain, tagged, of two extensions), a movie of the same
\* identity in a subfolder, a movie already in its folder, TV episodes with
\* subtitles, an episode whose title holds a season/episode marker, and
\* names no pattern matches.
MovieA == movies_root \o << <<"A", ".", "1", "9", "9", "9", ".", "m", "k", "v">> >>
MovieASrt == movies_root \o << <<"A", ".", "1", "9", "9", "9", ".", "s", "r", "t">> >>
MovieAAss == movies_root \o << <<"A", ".", "1", "9", "9", "9", ".", "a", "s", "s">> >>
MovieAEnSrt == movies_root \o << <<"A", ".", "1", "9", "9", "9", ".", "e", "n", ".", "s", "r", "t">> >>
MovieA2 == movies_root \o << <<"x">>, <<"A", ".", "1", "9", "9", "9", ".", "m", "k", "v">> >>
MovieB == movies_root \o << <<"[", "B", "]", " ", "[", "2", "0", "0", "0", "]">>, <<"B", ".", "2", "0", "0", "0", ".", "m", "k", "v">> >>
MovieJunk == movies_root \o << <<"j", "u", "n", "k", ".", "m", "k", "v">> >>
EpisodeA == tv_root \o << <<"a", ".", "S", "1", "E", "2", ".", "m", "k", "v">> >>
EpisodeAEnSrt == tv_root \o << <<"a", ".", "S", "1", "E", "2", ".", "e", "n", ".", "s", "r", "t">> >>
EpisodeAFrSrt == tv_root \o << <<"a", ".", "S", "1", "E", "2", ".", "f", "r", ".", "s", "r", "t">> >>
EpisodeAAss == tv_root \o << <<"a", ".", "S", "1", "E", "2", ".", "a", "s", "s">> >>
EpisodeRecap == tv_root \o << <<"b", " ", "S", "1", "E", "2", " ", "S", "3", "E", "4", ".", "m", "k", "v">> >>
EpisodeJunk == tv_root \o << <<"j", "u", "n", "k", ".", "m", "k", "v">> >>

Candidates ==
  { MovieA, MovieASrt, MovieAAss, MovieAEnSrt,
    MovieA2, MovieB, MovieJunk, EpisodeA,
    EpisodeAEnSrt, EpisodeAFrSrt, EpisodeAAss, EpisodeRecap,
    EpisodeJunk }

\* The largest initial library and the number of subtitles that vanish during
\* one organize call.
MaxFiles == 3
MaxVanish == 1

\* shutil.move(src, dst) on the file tree: dst now holds src's content (a
\* file already at dst is replaced), src is gone.
Move(f, src, dst) ==
  [p \in (DOMAIN f \ {src}) \cup {dst} |-> IF p = dst THEN f[src] ELSE f[p]]

\* A file deleted by another process.
Remove(f, p) == [q \in DOMAIN f \ {p} |-> f[q]]

\* -------------------------------------------------------------- organizer

VARIABLES
  fs,          \* the files: path |-> identity of the content (its first path)
  dirs,        \* the directories that exist
  mode,        \* the deployment's command line: "full", "movies" or "tv"
  dry_run,     \* self.dry_run of the current invocation
  summary,     \* self.summary
  pc,          \* where the current invocation stands
  videos,      \* the list the current loop iterates over
  idx,         \* the position of the loop in videos
  notified,    \* the notification run() sent, "none" before it
  start,       \* the file tree when the current invocation started
  last,        \* the last organize call: its file, plan and outcome
  log,         \* the organize calls of the current invocation, in order
  previous,    \* the invocation before the current one: how it ended
  name_in,     \* the parser harness: the file name under test,
  parts_in,    \*   the pieces it was put together from,
  parse_out    \*   and what a parser returned for it

parser_vars == << name_in, parts_in, parse_out >>

organizer_vars ==
  << fs, dirs, mode, dry_run, summary, pc, videos, idx, notified, start, last,
     log, previous >>

vars == << organizer_vars, parser_vars >>

\* self.summary of a new MediaOrganizer
NewSummary ==
  [movies_organized |-> 0, movies_skipped |-> 0, tv_organized |-> 0,
   tv_skipped |-> 0, errors |-> << >>]

\* A variant of CountOrganized: organize_movie counting in the TV counter.
CountOrganizedAsTV(s, category) == [s EXCEPT !.tv_organized = @ + 1]

\* self.summary[f"{category}_organized"] += 1
CountOrganized(s, category) ==
  IF category = "movies" THEN [s EXCEPT !.movies_organized = @ + 1]
  ELSE [s EXCEPT !.tv_organized = @ + 1]

\* A variant of CountSkipped: organize_tv counting in the movies' counter.
CountSkippedAsMovie(s, category) == [s EXCEPT !.movies_skipped = @ + 1]

\* self.summary[f"{category}_skipped"] += 1
CountSkipped(s, category) ==
  IF category = "movies" THEN [s EXCEPT !.movies_skipped = @ + 1]
  ELSE [s EXCEPT !.tv_skipped = @ + 1]

\* A variant of PerformsMoves: the dry-run test left out.
PerformsMovesAlways(dry) == TRUE

\* if not self.dry_run:
PerformsMoves(dry) == ~dry

\* What the platform and other processes do during one organize call that
\* relocates a video with n subtitles.  at: the operation that raises, 0 for
\* none, 1 for mkdir, 2 for the video's move, 2 + k for the k-th subtitle's
\* move; kind: OSError (permission denied, disk full: nothing is changed by
\* the failed operation) or, for a subtitle, FileNotFoundError (the file was
\* deleted after sub.exists() answered True); vanish: the subtitles deleted
\* between the glob and their sub.exists().
Quiet == [at |-> 0, kind |-> "none", vanish |-> {}]

Environments(n) ==
  LET fails == {[at |-> 0, kind |-> "none"]}
                 \cup {[at |-> a, kind |-> "OSError"] : a \in 1..(n + 2)}
                 \cup {[at |-> 2 + k, kind |-> "FileNotFoundError"] : k \in 1..n}
  IN  {[at |-> f.at, kind |-> f.kind, vanish |-> v] :
         f \in fails,
         v \in {w \in SUBSET (1..n) : Cardinality(w) <= MaxVanish}}

\* for sub, sub_dest in zip(subs, sub_dests): if sub.exists(): shutil.move(...)
\* from the k-th subtitle on.  An exception ends the loop: raised is the
\* operation that raised, 0 when the loop completed.
RECURSIVE MoveSubs(_, _, _, _, _)
MoveSubs(f, subs, sub_dests, k, env) ==
  IF k > Len(subs) THEN [fs |-> f, raised |-> 0]
  ELSE LET sub == subs[k]
           f1  == IF k \in env.vanish /\ sub \in DOMAIN f THEN Remove(f, sub) ELSE f
       IN  IF sub \notin DOMAIN f1 THEN MoveSubs(f1, subs, sub_dests, k + 1, env)
           ELSE IF env.at = 2 + k
                THEN [fs |-> IF env.kind = "FileNotFoundError"
                             THEN Remove(f1, sub) ELSE f1,
                      raised |-> 2 + k]
           ELSE MoveSubs(Move(f1, sub, sub_dests[k]), subs, sub_dests, k + 1, env)

\* The body of "if not self.dry_run:" of organize_movie and organize_tv:
\* mkdir(parents=True, exist_ok=True), the video's move, the subtitles' moves.
InFolder(r, ds, folder) ==
  [fs |-> r.fs, dirs |-> ds \cup Ancestors(folder), raised |-> r.raised]

Relocate(f, ds, folder, video_path, video_dest, subs, sub_dests, env) ==
  IF env.at = 1 THEN [fs |-> f, dirs |-> ds, raised |-> 1]
  ELSE IF env.at = 2 THEN InFolder([fs |-> f, raised |-> 2], ds, folder)
  ELSE InFolder(MoveSubs(Move(f, video_path, video_dest), subs, sub_dests, 1, env),
                ds, folder)

\* What organize_movie / organize_tv decide before the log line: a skip, or
\* the folder, the video's destination, the subtitles and theirs.
Skip == [skip |-> TRUE]

\* organize_movie's plan for a parsed video that is not in place.
MovieMoves(parsed, video_path, subs) ==
  [skip |-> FALSE,
   folder |-> MovieFolder(parsed),
   video_dest |-> MovieVideoDest(parsed, video_path),
   subs |-> subs,
   sub_dests |-> [k \in 1..Len(subs) |-> MovieSubDest(parsed, video_path, subs[k])]]

MoviePlanOf(f, video_path, parsed) ==
  IF ~parsed.ok THEN Skip
  ELSE IF MovieInPlace(parsed, video_path) THEN Skip
  ELSE MovieMoves(parsed, video_path, find_associated_subs(DOMAIN f, video_path))

\* organize_tv's plan for a parsed video that is not in place.
TVMoves(parsed, video_path, subs) ==
  [skip |-> FALSE,
   folder |-> SeasonFolder(parsed),
   video_dest |-> TVVideoDest(parsed, video_path),
   subs |-> subs,
   sub_dests |-> [k \in 1..Len(subs) |-> TVSubDest(parsed, video_path, subs[k])]]

TVPlanOf(f, video_path, parsed) ==
  IF ~parsed.ok THEN Skip
  ELSE IF TVInPlace(parsed, video_path) THEN Skip
  ELSE TVMoves(parsed, video_path, find_associated_subs(DOMAIN f, video_path))

\* A variant of AfterMoves: the counter raised before the moves are known to
\* have succeeded.
AfterMovesCountedFirst(r, s, category) ==
  [fs |-> r.fs, dirs |-> r.dirs, raised |-> r.raised,
   summary |-> CountOrganized(s, category)]

\* The end of organize_movie / organize_tv after the moves: an exception of
\* mkdir or shutil.move is caught nowhere, it leaves the summary as it was and
\* unwinds the caller; otherwise the file counts as organized.
AfterMoves(r, s, category) ==
  [fs |-> r.fs, dirs |-> r.dirs, raised |-> r.raised,
   summary |-> IF r.raised # 0 THEN s ELSE CountOrganized(s, category)]

\* organize_movie / organize_tv from the plan on: a skip counts as skipped;
\* otherwise the moves are made unless this is a dry run.
Organize(category, plan, f, ds, s, dry, video_path, env) ==
  IF plan.skip
  THEN [fs |-> f, dirs |-> ds, raised |-> 0, summary |-> CountSkipped(s, category)]
  ELSE IF PerformsMoves(dry)
       THEN AfterMoves(Relocate(f, ds, plan.folder, video_path, plan.video_dest,
                                plan.subs, plan.sub_dests, env),
                       s, category)
  ELSE [fs |-> f, dirs |-> ds, raised |-> 0, summary |-> CountOrganized(s, category)]

\* The environments one organize call can meet: only a call that relocates
\* touches the file tree.
EnvironmentsOf(plan, dry) ==
  IF plan.skip \/ ~PerformsMoves(dry) THEN {Quiet}
  ELSE Environments(Len(plan.subs))

\* Which counter of the summary a call raised.
Counted(before, after) ==
  IF after.movies_organized + after.tv_organized
       # before.movies_organized + before.tv_organized THEN "organized"
  ELSE IF after.movies_skipped + after.tv_skipped
       # before.movies_skipped + before.tv_skipped THEN "skipped"
  ELSE "none"

\* The record of one organize call: the file, what the parser returned for
\* its name, the plan, what the platform did, the file tree before and after,
\* the operation that raised and the counter the call raised.
CallRecord(category, video_path, parsed, plan, env, r) ==
  [category |-> category, video |-> video_path, parsed |-> parsed, plan |-> plan,
   env |-> env, before |-> fs, after |-> r.fs, raised |-> r.raised,
   counted |-> Counted(summary, r.summary)]

NoCall ==
  [category |-> "none", video |-> << >>, parsed |-> NoMatch, plan |-> Skip,
   env |-> Quiet, before |-> << >>, after |-> << >>, raised |-> 0,
   counted |-> "none"]

\* The line of the log for a call.
LogLine(call) ==
  [category |-> call.category, video |-> call.video, env |-> call.env,
   raised |-> call.raised, counted |-> call.counted]

\* The record of an invocation that ended: its flag, the file tree it started
\* with and left, its summary, whether it ended with a traceback, and whether
\* nothing failed and nothing vanished in it.
NoRun == [ran |-> FALSE]

RunRecord ==
  [ran |-> TRUE, dry_run |-> dry_run, start |-> start.fs, end |-> fs,
   summary |-> summary, crashed |-> (pc = "crashed"),
   quiet |-> \A i \in 1..Len(log) : log[i].env = Quiet]

InitDirs(tree) ==
  UNION {Ancestors(Parent(p)) : p \in tree}
    \cup Ancestors(movies_root) \cup Ancestors(tv_root)

\* The parser harness at rest.
NotParsed == [by |-> "none"]

ParserIdle ==
  /\ name_in = << >>
  /\ parts_in = << >>
  /\ parse_out = NotParsed

Init ==
  /\ ParserIdle
  /\ \E tree \in {t \in SUBSET Candidates : Cardinality(t) <= MaxFiles} :
       /\ fs = [p \in tree |-> p]
       /\ dirs = InitDirs(tree)
  /\ mode \in {"full", "movies", "tv"}
  /\ dry_run = FALSE
  /\ summary = NewSummary
  /\ pc = "idle"
  /\ videos = << >>
  /\ idx = 1
  /\ notified = "none"
  /\ start = [fs |-> fs, dirs |-> dirs]
  /\ last = NoCall
  /\ log = << >>
  /\ previous = NoRun

\* main(): a new MediaOrganizer, then run_tv, run_movies or run by the flags.
Main(dry) ==
  /\ pc \in {"idle", "exit", "crashed"}
  /\ previous' = IF pc = "idle" THEN NoRun ELSE RunRecord
  /\ dry_run' = dry
  /\ summary' = NewSummary
  /\ pc' = IF mode = "tv" THEN "run_tv" ELSE "run_movies"
  /\ videos' = << >>
  /\ idx' = 1
  /\ notified' = "none"
  /\ start' = [fs |-> fs, dirs |-> dirs]
  /\ last' = NoCall
  /\ log' = << >>
  /\ UNCHANGED << fs, dirs, mode, parser_vars >>

\* run_movies / run_tv up to the loop: the scan.
Scan(at, root, loop) ==
  /\ pc = at
  /\ videos' = get_video_files(DOMAIN fs, root)
  /\ idx' = 1
  /\ pc' = loop
  /\ UNCHANGED << fs, dirs, mode, dry_run, summary, notified, start, last, log,
                  previous, parser_vars >>

ScanMovies == Scan("run_movies", movies_root, "movies_loop")

ScanTV == Scan("run_tv", tv_root, "tv_loop")

\* One iteration of the loop of run_movies / run_tv.  An exception unwinds
\* run_movies / run_tv, run and main: the process ends with a traceback.
Iterate(loop, category, parsed, plan, env, r) ==
  /\ fs' = r.fs
  /\ dirs' = r.dirs
  /\ summary' = r.summary
  /\ last' = CallRecord(category, videos[idx], parsed, plan, env, r)
  /\ log' = Append(log, LogLine(last'))
  /\ IF r.raised # 0
     THEN pc' = "crashed" /\ idx' = idx
     ELSE pc' = loop /\ idx' = idx + 1
  /\ UNCHANGED << mode, dry_run, videos, notified, start, previous, parser_vars >>

\* self.organize_movie(video) in the loop of run_movies.
OrganizeMovie ==
  /\ pc = "movies_loop"
  /\ idx <= Len(videos)
  /\ \E parsed \in {parse_movie_filename(Name(videos[idx]))} :
       \E plan \in {MoviePlanOf(fs, videos[idx], parsed)} :
         \E env \in EnvironmentsOf(plan, dry_run) :
           Iterate("movies_loop", "movies", parsed, plan, env,
                   Organize("movies", plan, fs, dirs, summary, dry_run,
                            videos[idx], env))

\* self.organize_tv(video) in the loop of run_tv.
OrganizeTV ==
  /\ pc = "tv_loop"
  /\ idx <= Len(videos)
  /\ \E parsed \in {parse_tv_filename(Name(videos[idx]))} :
       \E plan \in {TVPlanOf(fs, videos[idx], parsed)} :
         \E env \in EnvironmentsOf(plan, dry_run) :
           Iterate("tv_loop", "tv", parsed, plan, env,
                   Organize("tv", plan, fs, dirs, summary, dry_run,
                            videos[idx], env))

\* The end of run_movies: run() goes on to run_tv, --movies-only returns.
MoviesDone ==
  /\ pc = "movies_loop"
  /\ idx > Len(videos)
  /\ pc' = IF mode = "full" THEN "run_tv" ELSE "exit"
  /\ UNCHANGED << fs, dirs, mode, dry_run, summary, videos, idx, notified, start,
                  last, log, previous, parser_vars >>

\* The end of run_tv: run() goes on to its report, --tv-only returns.
TVDone ==
  /\ pc = "tv_loop"
  /\ idx > Len(videos)
  /\ pc' = IF mode = "full" THEN "report" ELSE "exit"
  /\ UNCHANGED << fs, dirs, mode, dry_run, summary, videos, idx, notified, start,
                  last, log, previous, parser_vars >>

\* The end of run(): the notification by the total organized.
Report ==
  /\ pc = "report"
  /\ notified' = IF summary.movies_organized + summary.tv_organized > 0
                 THEN "success" ELSE "warning"
  /\ pc' = "exit"
  /\ UNCHANGED << fs, dirs, mode, dry_run, summary, videos, idx, start, last, log,
                  previous, parser_vars >>

Next ==
  \/ \E dry \in BOOLEAN : Main(dry)
  \/ ScanMovies
  \/ OrganizeMovie
  \/ MoviesDone
  \/ ScanTV
  \/ OrganizeTV
  \/ TVDone
  \/ Report

Spec == Init /\ [][Next]_vars

\* ----------------------------------------------------------- parser runs

\* The file names the parsers are run on, put together from a show or movie
\* name, a separator, a marker (season and episode in the S..E.. or ..x..
\* form, with or without a leading zero, or a year, bare or in parentheses),
\* a trailing segment and an extension.
MaxSeason == 2
MaxEpisode == 10

Shows == { <<"S", "h", "o", "w", ".", "N", "a", "m", "e">>, <<"a">>, <<"[", "b", "]">> }

Joints == { <<".">>, <<" ">>, <<"_">> }

Years == { MinYear - 1, MinYear, 1999, MaxYear, MaxYear + 1 }

Markers ==
  {[kind |-> k, season |-> a, episode |-> b, padded |-> z, year |-> 0] :
     k \in {"SE", "x"}, a \in 1..MaxSeason, b \in 1..MaxEpisode, z \in BOOLEAN}
    \cup {[kind |-> k, season |-> 0, episode |-> 0, padded |-> FALSE, year |-> y] :
            k \in {"year", "(year)"}, y \in Years}

Trailers == { << >>, <<".", "E", "p", "i", "s", "o", "d", "e", ".", "T", "i", "t", "l", "e">>, <<" ", "T", "i", "t", "l", "e">>, <<"-", "t">>, <<".", "1", "0", "8", "0", "p">> }

Extension == <<".", "m", "k", "v">>

\* A number as the file name spells it: two digits when padded.
Padded(n, padded) == IF padded /\ n < 10 THEN <<"0">> \o StrOf(n) ELSE StrOf(n)

MarkerText(m) ==
  IF m.kind = "SE"
  THEN <<"S">> \o Padded(m.season, m.padded) \o <<"E">> \o Padded(m.episode, m.padded)
  ELSE IF m.kind = "x"
  THEN StrOf(m.season) \o <<"x">> \o Padded(m.episode, m.padded)
  ELSE IF m.kind = "year" THEN StrOf(m.year)
  ELSE <<"(">> \o StrOf(m.year) \o <<")">>

NameOf(parts) ==
  parts.show \o parts.joint \o MarkerText(parts.marker) \o parts.trailer
    \o Extension

\* No library and no invocation: the organizer's variables while only the
\* parsers are run.
NoLibrary ==
  /\ fs = [p \in {} |-> p]
  /\ dirs = InitDirs({})
  /\ mode = "full"
  /\ dry_run = FALSE
  /\ summary = NewSummary
  /\ pc = "idle"
  /\ videos = << >>
  /\ idx = 1
  /\ notified = "none"
  /\ start = [fs |-> fs, dirs |-> dirs]
  /\ last = NoCall
  /\ log = << >>
  /\ previous = NoRun

ParserInit ==
  /\ NoLibrary
  /\ parts_in \in [show : Shows, joint : Joints, marker : Markers,
                   trailer : Trailers]
  /\ name_in = NameOf(parts_in)
  /\ parse_out = NotParsed

\* A call of one parser on the file name.
Parsed(by, result) ==
  /\ parse_out = NotParsed
  /\ parse_out' = [by |-> by, result |-> result]
  /\ UNCHANGED << name_in, parts_in, organizer_vars >>

ParseMovie == Parsed("movie", parse_movie_filename(name_in))

ParseTV == Parsed("tv", parse_tv_filename(name_in))

ParserNext ==
  \/ ParseMovie
  \/ ParseTV

ParserSpec == ParserInit /\ [][ParserNext]_vars

\* ------------------------------------------------------------ properties

\* Where the planner of a category sends a video whose name parsed.
DestinationOf(category, parsed, video_path) ==
  IF category = "movies" THEN MovieVideoDest(parsed, video_path)
  ELSE TVVideoDest(parsed, video_path)

\* The file name parsed and the planned destination is not where the file is.
WouldMove(category, parsed, video_path) ==
  /\ parsed.ok
  /\ DestinationOf(category, parsed, video_path) # video_path

\* The number of calls of the current invocation, of one category, that
\* raised the given counter.
NumberCounted(category, counter) ==
  Cardinality({i \in 1..Len(log) :
                 log[i].category = category /\ log[i].counted = counter})

\* C1: in a real run a failing move (mkdir or shutil.move raising) is caught:
\* the run goes on to the later files, and the summary's errors list holds
\* exactly one entry for the failing file.
C1_FailureIsCaughtAndRecorded ==
  \A i \in 1..Len(log) :
    (log[i].raised # 0 /\ log[i].env.kind = "OSError")
      => (pc # "crashed" /\ Len(summary.errors) = 1)

\* C2: after a complete real run without failures, a second run over the
\* resulting tree organizes nothing: movies_organized = 0 and tv_organized = 0.
C2_SecondRunOrganizesNothing ==
  ( /\ pc = "exit"
    /\ previous.ran
    /\ ~previous.dry_run
    /\ ~previous.crashed
    /\ previous.quiet
    /\ start.fs = previous.end )
    => ( /\ summary.movies_organized = 0
         /\ summary.tv_organized = 0 )

\* C3: a dry run and a real run over the same tree end with the same
\* movies_organized, movies_skipped, tv_organized and tv_skipped, also when a
\* move fails in the real run.
C3_DryRunCountsEqualRealRun ==
  ( /\ pc \in {"exit", "crashed"}
    /\ ~dry_run
    /\ previous.ran
    /\ previous.dry_run
    /\ start.fs = previous.start )
    => ( /\ summary.movies_organized = previous.summary.movies_organized
         /\ summary.movies_skipped = previous.summary.movies_skipped
         /\ summary.tv_organized = previous.summary.tv_organized
         /\ summary.tv_skipped = previous.summary.tv_skipped )

\* The extension of a companion subtitle: its last suffix, or all that follows
\* the video's base name in its name (a language tag and the suffix).
OwnExtensions(call, sub) ==
  { Suffix(Name(sub)),
    Slice(Name(sub), Len(Stem(Name(call.video))) + 1, Len(Name(sub))) }

\* Where a companion subtitle of a call is to end up: the video's destination
\* folder, named <destination video base name><its own extension>.
CompanionTargets(call, sub) ==
  { Append(Parent(call.plan.video_dest), Stem(Name(call.plan.video_dest)) \o e) :
      e \in OwnExtensions(call, sub) }

\* C4: for every video moved in a real run, each companion subtitle found for
\* it ends up in the video's destination folder under the destination video's
\* base name plus the subtitle's own extension, for movies and TV episodes
\* and for every companion of the video (in a call in which nothing failed
\* and nothing vanished).
C4_CompanionsFollowRenamed ==
  ( /\ last.category # "none"
    /\ ~dry_run
    /\ ~last.plan.skip
    /\ last.env = Quiet )
    => \A k \in 1..Len(last.plan.subs) :
         \E target \in CompanionTargets(last, last.plan.subs[k]) :
           /\ target \in DOMAIN fs
           /\ fs[target] = last.before[last.plan.subs[k]]

\* C5: when folder creation or a relocation fails for a file, the file is left
\* in place: the video and all of its companion subtitles are still at their
\* original paths, no partial move (the recording of the failure and the rest
\* of the run are the subject of C1).
C5_FailedFileLeftInPlace ==
  ( /\ last.raised # 0
    /\ last.env.kind = "OSError"
    /\ last.env.vanish = {} )
    => /\ last.video \in DOMAIN fs
       /\ fs[last.video] = last.before[last.video]
       /\ \A k \in 1..Len(last.plan.subs) :
            /\ last.plan.subs[k] \in DOMAIN fs
            /\ fs[last.plan.subs[k]] = last.before[last.plan.subs[k]]

\* The video of a call is at its planned destination and no longer at its
\* source.
Moved(call, dest) ==
  /\ dest \in DOMAIN call.after
  /\ call.after[dest] = call.before[call.video]
  /\ call.video \notin DOMAIN call.after

\* C6: a file is counted in movies_organized or tv_organized only if its move
\* was performed (real run: the video's content is at its destination and no
\* longer at its source) or would be performed (dry run: the name parses and
\* the planned destination differs from the location, nothing touched); a
\* call that raised or skipped counts nothing as organized, and the counters
\* are exactly the numbers of such calls.
C6_OrganizedOnlyIfMoved ==
  /\ last.counted = "organized" =>
       /\ last.raised = 0
       /\ WouldMove(last.category, last.parsed, last.video)
       /\ IF dry_run THEN last.after = last.before
          ELSE Moved(last, DestinationOf(last.category, last.parsed, last.video))
  /\ ( /\ last.category # "none"
       /\ \/ last.raised # 0
          \/ ~WouldMove(last.category, last.parsed, last.video) )
       => last.counted # "organized"
  /\ \A i \in 1..Len(log) : log[i].raised # 0 => log[i].counted # "organized"
  /\ summary.movies_organized = NumberCounted("movies", "organized")
  /\ summary.tv_organized = NumberCounted("tv", "organized")

\* A real run counted one file organized and the next call's move raised.
C6_Witness ==
  /\ ~dry_run
  /\ Len(log) >= 2
  /\ log[1].counted = "organized"
  /\ last.raised # 0

\* C7: a companion subtitle that is gone when its move is due (deleted before
\* sub.exists(), or between sub.exists() and the move) is silently skipped:
\* the call does not raise, the video is moved and counted organized, nothing
\* is added to errors and the run goes on.
C7_MissingCompanionIsSkipped ==
  ( /\ last.category # "none"
    /\ \/ last.env.vanish # {}
       \/ last.env.kind = "FileNotFoundError"
    /\ last.env.kind # "OSError" )
    => /\ last.raised = 0
       /\ last.counted = "organized"
       /\ last.plan.video_dest \in DOMAIN fs
       /\ summary.errors = << >>
       /\ pc # "crashed"

\* C8: with dry_run set a run changes nothing in the file tree: the files,
\* their contents and the directories are those the invocation started with.
C8_DryRunChangesNothing ==
  dry_run => (fs = start.fs /\ dirs = start.dirs)

\* A dry run planned the move of a video with a companion subtitle.
C8_Witness ==
  /\ dry_run
  /\ last.counted = "organized"
  /\ ~last.plan.skip
  /\ last.plan.subs # << >>

\* The loop is about to handle a file that takes the skip path.
SkipAhead ==
  /\ pc \in {"movies_loop", "tv_loop"}
  /\ idx <= Len(videos)
  /\ IF pc = "movies_loop"
     THEN ~WouldMove("movies", parse_movie_filename(Name(videos[idx])), videos[idx])
     ELSE ~WouldMove("tv", parse_tv_filename(Name(videos[idx])), videos[idx])

\* C9: a file whose name does not parse, or whose planned destination is its
\* location, raises the skipped counter of its own category by one and
\* changes nothing else: no folder, no file, no other counter, no error.
C9_SkipOnlyCountsSkipped ==
  [][ SkipAhead =>
        /\ summary' = IF pc = "movies_loop"
                      THEN [summary EXCEPT !.movies_skipped = @ + 1]
                      ELSE [summary EXCEPT !.tv_skipped = @ + 1]
        /\ fs' = fs
        /\ dirs' = dirs ]_vars

\* One run skipped the movie already in its folder, a movie whose name does
\* not parse and a TV file whose name does not parse.
C9_Witness ==
  /\ \E i \in 1..Len(log) : log[i].video = MovieB /\ log[i].counted = "skipped"
  /\ \E i \in 1..Len(log) : log[i].video = MovieJunk /\ log[i].counted = "skipped"
  /\ last.video = EpisodeJunk
  /\ last.counted = "skipped"

\* The trailing title segment of a file name trimmed of separators.
TrailingTitle(parts) == Strip(parts.trailer, {".", "-", " ", "_"})

\* The letters a title word is made of.
Letters == {Ascii[i] : i \in (34..59) \cup (66..91)}

\* A file name of the form <show>.S<season>E<episode>.<title words>.<ext>.
DottedTitleForm(parts) ==
  /\ parts.joint = <<".">>
  /\ parts.marker.kind = "SE"
  /\ parts.trailer # << >>
  /\ Head(parts.trailer) = "."
  /\ \A i \in 1..Len(parts.trailer) : parts.trailer[i] \in Letters \cup {"."}
  /\ TrailingTitle(parts) # << >>

\* C10: parse_tv_filename uses the trailing title segment as the episode title
\* whenever one is present and not empty after trimming separators: for a name
\* <show>.S<season>E<episode>.<title words>.<ext> it returns the normalized
\* show, the season, the episode and a title taken from the trailing segment,
\* not the synthesized "Episode {episode}".
C10_TrailingTitleIsUsed ==
  (parse_out.by = "tv" /\ DottedTitleForm(parts_in))
    => /\ parse_out.result.ok
       /\ parse_out.result.show = Normalize(parts_in.show)
       /\ parse_out.result.season = parts_in.marker.season
       /\ parse_out.result.episode = parts_in.marker.episode
       /\ parse_out.result.title # EpisodeWord \o StrOf(parts_in.marker.episode)
       /\ parse_out.result.title
            \in {TrailingTitle(parts_in), Normalize(parts_in.trailer)}

\* A file name of the movie form: a title, a separator, a four-digit year
\* (bare or in parentheses) and a separator after it.
MovieForm(parts) ==
  /\ parts.marker.kind \in {"year", "(year)"}
  /\ Head(parts.trailer \o Extension) \in Sep

\* C11: parse_movie_filename never returns a year outside [1900, 2026]: the
\* result is NoMatch or a title/year pair with 1900 <= year <= 2026; a name
\* of the movie form whose year is outside the range yields NoMatch (not a
\* clamped year), and one whose year is inside the range yields the
\* normalized title and that year.
C11_MovieYearWithinRange ==
  parse_out.by = "movie" =>
    /\ parse_out.result.ok =>
         (MinYear <= parse_out.result.year /\ parse_out.result.year <= MaxYear)
    /\ MovieForm(parts_in) =>
         IF MinYear <= parts_in.marker.year /\ parts_in.marker.year <= MaxYear
         THEN parse_out.result = [ok |-> TRUE,
                                  title |-> Normalize(StripBrackets(parts_in.show)),
                                  year |-> parts_in.marker.year]
         ELSE parse_out.result = NoMatch

\* The movie parser was run on a name of the movie form whose year is one past
\* the range, and returned NoMatch.
C11_Witness ==
  /\ parse_out.by = "movie"
  /\ MovieForm(parts_in)
  /\ parts_in.marker.year = MaxYear + 1
  /\ parse_out.result = NoMatch

\* A TV file name with no trailing title segment: <show><separator>, the
\* season and episode in the S..E.. or ..x.. form, and the extension.
NoTitleForm(parts) ==
  /\ parts.marker.kind \in {"SE", "x"}
  /\ parts.trailer = << >>

\* C12: for a TV file name in the S<season>E<episode> or <season>x<episode>
\* form with no trailing title segment, parse_tv_filename returns the show
\* name normalized, the season and the episode as integers (leading zeros
\* dropped) and the episode title "Episode {episode}" built from the integer
\* episode number.
C12_NoTitleGivesEpisodeN ==
  (parse_out.by = "tv" /\ NoTitleForm(parts_in))
    => parse_out.result
         = [ok |-> TRUE,
            show |-> Normalize(StripBrackets(parts_in.show)),
            season |-> parts_in.marker.season,
            episode |-> parts_in.marker.episode,
            title |-> EpisodeWord \o StrOf(parts_in.marker.episode)]

\* The TV parser was run on a name of the ..x.. form with a leading zero in
\* the episode and no trailing title, and returned "Episode 5".
C12_Witness ==
  /\ parse_out.by = "tv"
  /\ NoTitleForm(parts_in)
  /\ parts_in.marker.kind = "x"
  /\ parts_in.marker.padded
  /\ parts_in.marker.episode = 5
  /\ parse_out.result.ok
  /\ parse_out.result.title = <<"E", "p", "i", "s", "o", "d", "e", " ", "5">>

\* Whether a name begins with a prefix.
BeginsWith(name, prefix) ==
  /\ Len(prefix) <= Len(name)
  /\ SubSeq(name, 1, Len(prefix)) = prefix

\* The companions of a video among the files: the files of its own directory
\* whose name begins with its base name and whose extension is a subtitle
\* extension, in path order.
CompanionsOf(files, video_path) ==
  SortPaths({p \in files :
               /\ Parent(p) = Parent(video_path)
               /\ BeginsWith(Name(p), Stem(Name(video_path)))
               /\ Suffix(Name(p)) \in subtitle_exts})

\* C13: find_associated_subs returns exactly the files of the video's own
\* directory whose name begins with the video's base name and whose extension
\* is a subtitle extension, in path order, for every video of the tree, the
\* ones with brackets in the names this program produces included.
C13_CompanionsAreThePrefixed ==
  \A video_path \in DOMAIN fs :
    Suffix(Name(video_path)) \in video_exts
      => find_associated_subs(DOMAIN fs, video_path)
           = CompanionsOf(DOMAIN fs, video_path)

\* The videos of the tree an invocation started with, under a root.
Discovered(root) ==
  {p \in DOMAIN start.fs : IsUnder(root, p) /\ Suffix(Name(p)) \in video_exts}

\* The videos the calls of one category handled so far, in the order of the
\* calls.
RECURSIVE Handled(_, _)
Handled(lines, category) ==
  IF lines = << >> THEN << >>
  ELSE IF Head(lines).category = category
       THEN <<Head(lines).video>> \o Handled(Tail(lines), category)
  ELSE Handled(Tail(lines), category)

\* C14: files are processed strictly sequentially: in each tree the discovered
\* videos are handled one at a time in ascending path order, the whole movies
\* tree before the TV tree in a full run, and the moves of one file are
\* complete before the next file is looked at (the tree a call starts from is
\* the tree the call before it left).
C14_SequentialInPathOrder ==
  /\ \A i, j \in 1..Len(log) :
       i < j =>
         IF log[i].category = log[j].category
         THEN PathLess(log[i].video, log[j].video)
         ELSE log[i].category = "movies" /\ log[j].category = "tv"
  /\ pc = "movies_loop" =>
       /\ {videos[i] : i \in 1..Len(videos)} = Discovered(movies_root)
       /\ Handled(log, "movies") = SubSeq(videos, 1, idx - 1)
       /\ Handled(log, "tv") = << >>
  /\ pc = "tv_loop" =>
       /\ {videos[i] : i \in 1..Len(videos)} = Discovered(tv_root)
       /\ Handled(log, "tv") = SubSeq(videos, 1, idx - 1)
       /\ mode = "full" =>
            {log[i].video : i \in {k \in 1..Len(log) : log[k].category = "movies"}}
              = Discovered(movies_root)
  /\ last.category # "none" => fs = last.after

\* A full run handled two movies and then came to a TV episode.
C14_Witness ==
  /\ mode = "full"
  /\ Len(log) = 3
  /\ log[1].category = "movies"
  /\ log[2].category = "movies"
  /\ log[3].category = "tv"
  /\ log[3].counted = "organized"

\* The contents a file tree holds.
Contents(f) == {f[p] : p \in DOMAIN f}

\* C15: no file is lost by a real run: no move targets a path occupied by
\* another file or planned for another source, so after each call of a real
\* run in which nothing failed and nothing vanished every video and subtitle
\* that existed before still exists at exactly one path and the number of
\* files is the same.
C15_NoFileLost ==
  ( /\ last.category # "none"
    /\ ~dry_run
    /\ last.env = Quiet )
    => /\ Contents(last.after) = Contents(last.before)
       /\ Cardinality(DOMAIN last.after) = Cardinality(DOMAIN last.before)

\* The calls of the current invocation for one category: all of them, and
\* those that raised (the failures).
NumberProcessed(category) ==
  Cardinality({i \in 1..Len(log) : log[i].category = category})

NumberFailed(category) ==
  Cardinality({i \in 1..Len(log) :
                 log[i].category = category /\ log[i].raised # 0})

\* C16: count conservation: at every point of a run movies_organized +
\* movies_skipped + the movie failures is the number of movie files processed
\* so far, and likewise for TV; each file is counted once, in one counter of
\* its own category, so at the end of a failure-free run organized + skipped
\* is the number of discovered videos of each category the run covers.
C16_CountsAreConserved ==
  /\ summary.movies_organized + summary.movies_skipped + NumberFailed("movies")
       = NumberProcessed("movies")
  /\ summary.tv_organized + summary.tv_skipped + NumberFailed("tv")
       = NumberProcessed("tv")
  /\ summary.movies_organized = NumberCounted("movies", "organized")
  /\ summary.movies_skipped = NumberCounted("movies", "skipped")
  /\ summary.tv_organized = NumberCounted("tv", "organized")
  /\ summary.tv_skipped = NumberCounted("tv", "skipped")
  /\ \A i, j \in 1..Len(log) : i # j => log[i].video # log[j].video
  /\ \A i \in 1..Len(log) : (log[i].counted = "none") <=> (log[i].raised # 0)
  /\ pc = "exit" =>
       /\ mode # "tv" =>
            summary.movies_organized + summary.movies_skipped
              = Cardinality(Discovered(movies_root))
       /\ mode # "movies" =>
            summary.tv_organized + summary.tv_skipped
              = Cardinality(Discovered(tv_root))

\* A full run without a failure ended with a movie organized, a movie skipped
\* and an episode organized.
C16_Witness ==
  /\ pc = "exit"
  /\ mode = "full"
  /\ ~dry_run
  /\ summary.movies_organized = 1
  /\ summary.movies_skipped = 1
  /\ summary.tv_organized = 1

====
